---- MODULE Spec2Model ----
(***************************************************************************)
(* Model of sunbird's inference engine (sunbird/inference/inference.py):   *)
(* the Inference object, its Gaussian log-likelihood (scalar and batched), *)
(* the covariance assembly, the prior resolution and the configuration     *)
(* driven construction.                                                    *)
(*                                                                         *)
(* Numbers are exact rationals <<numerator, denominator>> in lowest terms  *)
(* with a positive denominator; arrays are sequences (1-D) and sequences   *)
(* of rows (2-D).  A Python call's outcome is a record: Ok(value) or       *)
(* Raise(exception name).                                                  *)
(***************************************************************************)
EXTENDS Integers, Sequences, FiniteSets, TLC

VARIABLES config, config_for_param, inference, outcome

vars == <<config, config_for_param, inference, outcome>>

(***************************************************************************)
(* Bounds of the model.                                                    *)
(***************************************************************************)
\* longest observation / prediction vector
MaxDim == 3
\* bin i of a prediction lies in i..(i + MaxDelta)
MaxDelta == 1
\* a predicted uncertainty lies in 0..MaxUnc
MaxUnc == 1
\* most rows of a batch
MaxBatch == 2

\* prior parameters (min, max, mean, dispersion, loc, scale) are 0..MaxPrior
MaxPrior == 2

\* a configured volume scaling lies in 1..MaxVolume
MaxVolume == 2

(***************************************************************************)
(* Python outcomes.                                                        *)
(***************************************************************************)
Ok(v) == [status |-> "ok", value |-> v]

Raise(e) == [status |-> "error", error |-> e]

None == [status |-> "none"]

(***************************************************************************)
(* Exact rational arithmetic.                                              *)
(***************************************************************************)
Abs(x) == IF x < 0 THEN -x ELSE x

Max(a, b) == IF a < b THEN b ELSE a

Min(a, b) == IF a < b THEN a ELSE b

RECURSIVE GCD(_, _)
GCD(a, b) == IF b = 0 THEN a ELSE GCD(b, a % b)

RNorm(n, d) ==
    LET g == GCD(Abs(n), Abs(d))
        s == IF d < 0 THEN -1 ELSE 1
    IN  <<(s * n) \div g, (s * d) \div g>>

R(i) == <<i, 1>>

RAdd(a, b) == RNorm(a[1] * b[2] + b[1] * a[2], a[2] * b[2])

RNeg(a) == <<-a[1], a[2]>>

RSub(a, b) == RAdd(a, RNeg(b))

RMul(a, b) == RNorm(a[1] * b[1], a[2] * b[2])

RDiv(a, b) == RNorm(a[1] * b[2], a[2] * b[1])

RECURSIVE RSum(_)
RSum(s) == IF Len(s) = 0 THEN R(0) ELSE RAdd(Head(s), RSum(Tail(s)))

\* an array holds its entries: each is computed once, when the array is made
Array(f) == f \o <<>>

\* np.array(...) of a sequence / of rows of Python numbers
RVec(v) == Array([i \in 1..Len(v) |-> R(v[i])])

RMat(m) == Array([i \in 1..Len(m) |-> RVec(m[i])])

(***************************************************************************)
(* numpy: shapes, broadcasting, diag, matmul, einsum, linalg.inv.          *)
(***************************************************************************)
Rows(m) == Len(m)

Cols(m) == Len(m[1])

\* two axis lengths broadcast together iff equal or one of them is 1
Broadcastable(a, b) == a = b \/ a = 1 \/ b = 1

\* index into an axis of length n that may be stretched
BIdx(i, n) == IF n = 1 THEN 1 ELSE i

\* x - y for 1-D arrays of broadcastable lengths
VecSub(x, y) ==
    Array([i \in 1..Max(Len(x), Len(y)) |->
             RSub(x[BIdx(i, Len(x))], y[BIdx(i, Len(y))])])

\* x ** 2, elementwise
VecSquare(x) == Array([i \in 1..Len(x) |-> RMul(x[i], x[i])])

MatSquare(m) == Array([i \in 1..Rows(m) |-> VecSquare(m[i])])

\* np.diag of a 1-D array: the square matrix with it on the diagonal
NpDiagOfVector(v) ==
    Array([i \in 1..Len(v) |->
             Array([j \in 1..Len(v) |-> IF i = j THEN v[i] ELSE R(0)])])

\* np.diag of a 2-D array: its main diagonal, a 1-D array
NpDiagOfMatrix(m) == Array([i \in 1..Min(Rows(m), Cols(m)) |-> m[i][i]])

\* a + b for 2-D arrays of broadcastable shapes
MatAddBroadcastable(a, b) ==
    Broadcastable(Rows(a), Rows(b)) /\ Broadcastable(Cols(a), Cols(b))

MatAdd(a, b) ==
    Array([i \in 1..Max(Rows(a), Rows(b)) |->
             Array([j \in 1..Max(Cols(a), Cols(b)) |->
                      RAdd(a[BIdx(i, Rows(a))][BIdx(j, Cols(a))],
                           b[BIdx(i, Rows(b))][BIdx(j, Cols(b))])])])

\* a (2-D) + v (1-D): v is aligned with a's last axis
MatAddVecBroadcastable(a, v) == Broadcastable(Cols(a), Len(v))

MatAddVec(a, v) ==
    Array([i \in 1..Rows(a) |->
             Array([j \in 1..Max(Cols(a), Len(v)) |->
                      RAdd(a[i][BIdx(j, Cols(a))], v[BIdx(j, Len(v))])])])

Minor(m, i, j) ==
    Array([r \in 1..(Len(m) - 1) |->
             Array([c \in 1..(Len(m) - 1) |->
                      m[IF r < i THEN r ELSE r + 1][IF c < j THEN c ELSE c + 1]])])

Sign(k) == IF k % 2 = 0 THEN R(1) ELSE R(-1)

RECURSIVE Det(_)
Det(m) ==
    IF Len(m) = 0 THEN R(1)
    ELSE RSum(Array([j \in 1..Len(m) |->
                 RMul(Sign(1 + j), RMul(m[1][j], Det(Minor(m, 1, j))))]))

\* np.linalg.inv: LinAlgError for a non-square or singular matrix
NpLinalgInv(m) ==
    IF Rows(m) # Cols(m) THEN Raise("LinAlgError")
    ELSE LET d == Det(m)
         IN  IF d = R(0) THEN Raise("LinAlgError")
             ELSE Ok(Array([i \in 1..Len(m) |->
                        Array([j \in 1..Len(m) |->
                            RDiv(RMul(Sign(i + j), Det(Minor(m, j, i))), d)])]))

\* v @ m for 1-D v and 2-D m (core dimensions must agree exactly)
VecMatMul(v, m) ==
    Array([j \in 1..Cols(m) |->
             RSum(Array([i \in 1..Len(v) |-> RMul(v[i], m[i][j])]))])

\* v @ w for 1-D arrays
Dot(v, w) == RSum(Array([i \in 1..Len(v) |-> RMul(v[i], w[i])]))

\* c * v for a scalar c
Scale(c, v) == Array([i \in 1..Len(v) |-> RMul(c, v[i])])

(***************************************************************************)
(* np.einsum as the vectorized likelihood uses it.  A label whose axis has *)
(* length 1 in one operand is stretched to the other operand's length.     *)
(***************************************************************************)
\* np.einsum("ik,...k", a, d) for 2-D a and 2-D d: output "...i"
EinsumIkEllipsisK(a, d) ==
    IF ~Broadcastable(Cols(a), Cols(d)) THEN Raise("ValueError")
    ELSE Ok(Array([j \in 1..Rows(d) |->
               Array([i \in 1..Rows(a) |->
                   RSum(Array([k \in 1..Max(Cols(a), Cols(d)) |->
                           RMul(a[i][BIdx(k, Cols(a))],
                                d[j][BIdx(k, Cols(d))])]))])]))

\* np.einsum("ki,ji", d, r) for 2-D d and 2-D r: output "jk"
EinsumKiJi(d, r) ==
    IF ~Broadcastable(Cols(d), Cols(r)) THEN Raise("ValueError")
    ELSE Ok(Array([j \in 1..Rows(r) |->
               Array([k \in 1..Rows(d) |->
                   RSum(Array([i \in 1..Max(Cols(d), Cols(r)) |->
                           RMul(d[k][BIdx(i, Cols(d))],
                                r[j][BIdx(i, Cols(r))])]))])]))

\* m[:, 0]
FirstColumn(m) == Array([j \in 1..Rows(m) |-> m[j][1]])

(***************************************************************************)
(* Python dicts: the keys in insertion order and the value of each key.    *)
(***************************************************************************)
EmptyDict == [keys |-> <<>>, val |-> <<>>]

Range(s) == {s[i] : i \in 1..Len(s)}

HasKey(d, k) == k \in Range(d.keys)

DictSet(d, k, v) ==
    [keys |-> IF HasKey(d, k) THEN d.keys ELSE Append(d.keys, k),
     val  |-> [x \in Range(d.keys) \cup {k} |-> IF x = k THEN v ELSE d.val[x]]]

(***************************************************************************)
(* The Inference object.                                                   *)
(***************************************************************************)
\* Inference.invert_covariance
InvertCovariance(covariance_matrix) == NpLinalgInv(covariance_matrix)

\* Inference.__init__: the inverse covariance is computed (and the
\* attribute exists) only when add_predicted_uncertainty is false
InferenceInit(theory_model, observation, covariance_matrix, priors, fixed_parameters, add_predicted_uncertainty) ==
    IF ~add_predicted_uncertainty
    THEN LET inv == InvertCovariance(covariance_matrix)
         IN  IF inv.status = "error" THEN inv
             ELSE Ok([theory_model |-> theory_model,
                      observation |-> observation,
                      covariance_matrix |-> covariance_matrix,
                      add_predicted_uncertainty |-> add_predicted_uncertainty,
                      inverse_covariance_matrix |-> inv.value,
                      priors |-> priors,
                      n_dim |-> Len(priors.keys),
                      fixed_parameters |-> fixed_parameters,
                      param_names |-> priors.keys])
    ELSE Ok([theory_model |-> theory_model,
             observation |-> observation,
             covariance_matrix |-> covariance_matrix,
             add_predicted_uncertainty |-> add_predicted_uncertainty,
             priors |-> priors,
             n_dim |-> Len(priors.keys),
             fixed_parameters |-> fixed_parameters,
             param_names |-> priors.keys])

MinusHalf == <<-1, 2>>

\* a faulty quadratic form: the factor -0.5 is applied twice
QuadraticFormHalvedTwice(diff, inverse) ==
    IF Len(diff) # Rows(inverse) \/ Cols(inverse) # Len(diff)
    THEN Raise("ValueError")
    ELSE Ok(Dot(VecMatMul(Scale(MinusHalf, diff), inverse), Scale(MinusHalf, diff)))

\* -0.5 * diff @ inverse @ diff, evaluated left to right; matmul raises
\* ValueError when the core dimensions disagree
QuadraticForm(diff, inverse) ==
    IF Len(diff) # Rows(inverse) \/ Cols(inverse) # Len(diff)
    THEN Raise("ValueError")
    ELSE Ok(Dot(VecMatMul(Scale(MinusHalf, diff), inverse), diff))

\* a faulty scalar likelihood: in predicted-uncertainty mode the covariance
\* is the predicted variance alone, the stored covariance is left out
GetLoglikelihoodForPredictionVarianceOnly(self, prediction, predicted_uncertainty) ==
    IF ~Broadcastable(Len(prediction), Len(self.observation))
    THEN Raise("ValueError")
    ELSE LET diff == VecSub(RVec(prediction), self.observation)
         IN  IF ~self.add_predicted_uncertainty
             THEN QuadraticForm(diff, self.inverse_covariance_matrix)
             ELSE LET d == NpDiagOfVector(VecSquare(RVec(predicted_uncertainty)))
                      inverse_covariance_matrix == InvertCovariance(d)
                  IN  IF inverse_covariance_matrix.status = "error"
                      THEN inverse_covariance_matrix
                      ELSE QuadraticForm(diff, inverse_covariance_matrix.value)

\* Inference.get_loglikelihood_for_prediction (1-D prediction and
\* predicted_uncertainty)
GetLoglikelihoodForPrediction(self, prediction, predicted_uncertainty) ==
    IF ~Broadcastable(Len(prediction), Len(self.observation))
    THEN Raise("ValueError")
    ELSE LET diff == VecSub(RVec(prediction), self.observation)
         IN  IF ~self.add_predicted_uncertainty
             THEN QuadraticForm(diff, self.inverse_covariance_matrix)
             ELSE LET d == NpDiagOfVector(VecSquare(RVec(predicted_uncertainty)))
                  IN  IF ~MatAddBroadcastable(self.covariance_matrix, d)
                      THEN Raise("ValueError")
                      ELSE LET inverse_covariance_matrix ==
                                   InvertCovariance(MatAdd(self.covariance_matrix, d))
                           IN  IF inverse_covariance_matrix.status = "error"
                               THEN inverse_covariance_matrix
                               ELSE QuadraticForm(diff, inverse_covariance_matrix.value)

\* the two einsum calls and the [:, 0] of the vectorized likelihood
VectorizedQuadraticForm(diff, inverse) ==
    LET right == EinsumIkEllipsisK(inverse, diff)
    IN  IF right.status = "error" THEN right
        ELSE LET full == EinsumKiJi(diff, right.value)
             IN  IF full.status = "error" THEN full
                 ELSE Ok(Scale(MinusHalf, FirstColumn(full.value)))

\* Inference.get_loglikelihood_for_prediction_vectorized (2-D prediction,
\* one row per sample, and 2-D predicted_uncertainty)
GetLoglikelihoodForPredictionVectorized(self, prediction, predicted_uncertainty) ==
    IF ~Broadcastable(Cols(prediction), Len(self.observation))
    THEN Raise("ValueError")
    ELSE LET diff == Array([j \in 1..Rows(prediction) |->
                              VecSub(RVec(prediction[j]), self.observation)])
         IN  IF ~self.add_predicted_uncertainty
             THEN VectorizedQuadraticForm(diff, self.inverse_covariance_matrix)
             ELSE LET d == NpDiagOfMatrix(MatSquare(RMat(predicted_uncertainty)))
                  IN  IF ~MatAddVecBroadcastable(self.covariance_matrix, d)
                      THEN Raise("ValueError")
                      ELSE LET inverse_covariance_matrix ==
                                   InvertCovariance(MatAddVec(self.covariance_matrix, d))
                           IN  IF inverse_covariance_matrix.status = "error"
                               THEN inverse_covariance_matrix
                               ELSE VectorizedQuadraticForm(
                                        diff, inverse_covariance_matrix.value)

(***************************************************************************)
(* The methods of a constructed object as calls on self: what a call       *)
(* leaves in the object's attributes, what it binds locally and what it    *)
(* returns.  No method below assigns to an attribute of self, and the      *)
(* arithmetic on an attribute (self.covariance_matrix + ...) builds a new  *)
(* array.                                                                  *)
(***************************************************************************)
\* the local covariance_matrix of a call was not bound
NotBound == [status |-> "none"]

\* line 341: the local covariance_matrix of the scalar likelihood
LocalCovariance(self, prediction, predicted_uncertainty) ==
    IF ~Broadcastable(Len(prediction), Len(self.observation)) THEN NotBound
    ELSE IF ~self.add_predicted_uncertainty THEN NotBound
    ELSE LET d == NpDiagOfVector(VecSquare(RVec(predicted_uncertainty)))
         IN  IF ~MatAddBroadcastable(self.covariance_matrix, d)
             THEN Raise("ValueError")
             ELSE Ok(MatAdd(self.covariance_matrix, d))

\* line 362: the local covariance_matrix of the vectorized likelihood
LocalCovarianceVectorized(self, prediction, predicted_uncertainty) ==
    IF ~Broadcastable(Cols(prediction), Len(self.observation)) THEN NotBound
    ELSE IF ~self.add_predicted_uncertainty THEN NotBound
    ELSE LET d == NpDiagOfMatrix(MatSquare(RMat(predicted_uncertainty)))
         IN  IF ~MatAddVecBroadcastable(self.covariance_matrix, d)
             THEN Raise("ValueError")
             ELSE Ok(MatAddVec(self.covariance_matrix, d))

\* a faulty scalar likelihood: the predicted variance is added to the stored
\* covariance in place (self.covariance_matrix += np.diag(...))
GetLoglikelihoodForPredictionInPlace(self, prediction, predicted_uncertainty) ==
    LET covariance_matrix == LocalCovariance(self, prediction, predicted_uncertainty)
    IN  [self |-> IF covariance_matrix.status = "ok"
                  THEN [self EXCEPT !.covariance_matrix = covariance_matrix.value]
                  ELSE self,
         covariance_matrix |-> covariance_matrix,
         result |-> GetLoglikelihoodForPrediction(self, prediction,
                                                  predicted_uncertainty)]

\* Inference.get_loglikelihood_for_prediction as a call on self
GetLoglikelihoodForPredictionOnSelf(self, prediction, predicted_uncertainty) ==
    [self |-> self,
     covariance_matrix |-> LocalCovariance(self, prediction, predicted_uncertainty),
     result |-> GetLoglikelihoodForPrediction(self, prediction, predicted_uncertainty)]

\* Inference.get_loglikelihood_for_prediction_vectorized as a call on self
GetLoglikelihoodForPredictionVectorizedOnSelf(self, prediction, predicted_uncertainty) ==
    [self |-> self,
     covariance_matrix |-> LocalCovarianceVectorized(self, prediction,
                                                     predicted_uncertainty),
     result |-> GetLoglikelihoodForPredictionVectorized(self, prediction,
                                                        predicted_uncertainty)]

\* params[p] = v for each item of a dict, in its order, from position i
RECURSIVE UpdateFrom(_, _, _)
UpdateFrom(params, d, i) ==
    IF i > Len(d.keys) THEN params
    ELSE UpdateFrom(DictSet(params, d.keys[i], d.val[d.keys[i]]), d, i + 1)

\* lines 372-374: params[param] = dist.rvs() for each prior, rvs[param]
\* being the value the distribution draws
RECURSIVE DrawFrom(_, _, _, _)
DrawFrom(params, priors, rvs, i) ==
    IF i > Len(priors.keys) THEN params
    ELSE DrawFrom(DictSet(params, priors.keys[i], rvs[priors.keys[i]]),
                  priors, rvs, i + 1)

\* Inference.sample_parameters_from_prior as a call on self
SampleParametersFromPrior(self, rvs) ==
    [self |-> self,
     result |-> Ok(UpdateFrom(DrawFrom(EmptyDict, self.priors, rvs, 1),
                              self.fixed_parameters, 1))]

\* self.theory_model(params, ...): the summary statistic the theory model
\* computes, which it can when params holds each of its inputs
TheoryModelCall(theory_model, params, prediction) ==
    IF Range(theory_model.input_names) \subseteq Range(params.keys)
    THEN Ok(prediction)
    ELSE Raise("KeyError")

\* Inference.sample_from_prior as a call on self
SampleFromPrior(self, rvs, prediction) ==
    LET params == SampleParametersFromPrior(self, rvs).result.value
        predicted == TheoryModelCall(self.theory_model, params, prediction)
    IN  [self |-> self,
         result |-> IF predicted.status = "error" THEN predicted
                    ELSE Ok(<<params, predicted.value>>)]

\* dict(zip(keys, parameters)): pairs up to the shorter of the two
RECURSIVE DictZip(_, _, _, _)
DictZip(params, keys, parameters, i) ==
    IF i > Min(Len(keys), Len(parameters)) THEN params
    ELSE DictZip(DictSet(params, keys[i], parameters[i]), keys, parameters, i + 1)

\* Inference.get_model_prediction as a call on self
GetModelPrediction(self, parameters, prediction) ==
    LET params == UpdateFrom(DictZip(EmptyDict, self.priors.keys, parameters, 1),
                             self.fixed_parameters, 1)
    IN  [self |-> self,
         result |-> TheoryModelCall(self.theory_model, params, prediction)]

(***************************************************************************)
(* Configuration mappings are Python dicts passed by reference: a pop or   *)
(* an assignment inside a classmethod changes the caller's mapping.  They  *)
(* are functions from the keys present to their values.                    *)
(***************************************************************************)
Pop(d, k) == [x \in (DOMAIN d) \ {k} |-> d[x]]

Put(d, k, v) == [x \in (DOMAIN d) \cup {k} |-> IF x = k THEN v ELSE d[x]]

(***************************************************************************)
(* Prior resolution.                                                       *)
(***************************************************************************)
StatsModules == {"scipy.stats", "numpy.random"}

\* what getattr finds in a distributions module: each name it provides, with
\* the keyword arguments a call of it accepts (scipy.stats freezes a
\* distribution with loc and scale; numpy.random draws with its own names)
DistributionsModule(stats_module) ==
    IF stats_module = "scipy.stats"
    THEN [uniform |-> {"loc", "scale"}, norm |-> {"loc", "scale"},
          expon |-> {"loc", "scale"}]
    ELSE [uniform |-> {"low", "high", "size"}, normal |-> {"loc", "scale", "size"},
          exponential |-> {"scale", "size"}]

\* a faulty translation of "uniform": the scale is max, not max - min
TranslateUniformScaleIsMax(dist_param) ==
    IF dist_param["distribution"] # "uniform" THEN [ok |-> TRUE, d |-> dist_param]
    ELSE IF "max" \notin DOMAIN dist_param THEN [ok |-> FALSE, d |-> dist_param]
    ELSE IF "min" \notin DOMAIN dist_param
         THEN [ok |-> FALSE, d |-> Pop(dist_param, "max")]
    ELSE [ok |-> TRUE,
          d  |-> Put(Put(Pop(Pop(dist_param, "max"), "min"),
                         "loc", dist_param["min"]),
                     "scale", dist_param["max"])]

\* a faulty translation of "norm": mean and dispersion are left in place
TranslateNormKeepsKeys(dist_param) ==
    IF dist_param["distribution"] # "norm" THEN [ok |-> TRUE, d |-> dist_param]
    ELSE IF "mean" \notin DOMAIN dist_param THEN [ok |-> FALSE, d |-> dist_param]
    ELSE IF "dispersion" \notin DOMAIN dist_param
         THEN [ok |-> FALSE, d |-> Pop(dist_param, "mean")]
    ELSE [ok |-> TRUE,
          d  |-> Put(Put(dist_param, "loc", dist_param["mean"]),
                     "scale", dist_param["dispersion"])]

\* lines 266-270: min/max of a "uniform" become loc/scale
TranslateUniform(dist_param) ==
    IF dist_param["distribution"] # "uniform" THEN [ok |-> TRUE, d |-> dist_param]
    ELSE IF "max" \notin DOMAIN dist_param THEN [ok |-> FALSE, d |-> dist_param]
    ELSE IF "min" \notin DOMAIN dist_param
         THEN [ok |-> FALSE, d |-> Pop(dist_param, "max")]
    ELSE [ok |-> TRUE,
          d  |-> Put(Put(Pop(Pop(dist_param, "max"), "min"),
                         "loc", dist_param["min"]),
                     "scale", dist_param["max"] - dist_param["min"])]

\* lines 271-275: mean/dispersion of a "norm" become loc/scale
TranslateNorm(dist_param) ==
    IF dist_param["distribution"] # "norm" THEN [ok |-> TRUE, d |-> dist_param]
    ELSE IF "mean" \notin DOMAIN dist_param THEN [ok |-> FALSE, d |-> dist_param]
    ELSE IF "dispersion" \notin DOMAIN dist_param
         THEN [ok |-> FALSE, d |-> Pop(dist_param, "mean")]
    ELSE [ok |-> TRUE,
          d  |-> Put(Put(Pop(Pop(dist_param, "mean"), "dispersion"),
                         "loc", dist_param["mean"]),
                     "scale", dist_param["dispersion"])]

\* Inference.initialize_distribution: the mapping as the call leaves it
\* (once "distribution" is popped it is what the constructor is called with)
\* and the distribution constructed, by its name and keyword arguments, or
\* the exception raised
InitializeDistribution(distributions_module, dist_param) ==
    IF "distribution" \notin DOMAIN dist_param
    THEN [dist_param |-> dist_param, result |-> Raise("KeyError")]
    ELSE LET u == TranslateUniform(dist_param)
         IN  IF ~u.ok THEN [dist_param |-> u.d, result |-> Raise("KeyError")]
             ELSE LET g == TranslateNorm(u.d)
                  IN  IF ~g.ok THEN [dist_param |-> g.d, result |-> Raise("KeyError")]
                      ELSE LET name == g.d["distribution"]
                               kwargs == Pop(g.d, "distribution")
                           IN  IF name \notin DOMAIN distributions_module
                               THEN [dist_param |-> kwargs,
                                     result |-> Raise("AttributeError")]
                               ELSE IF ~(DOMAIN kwargs \subseteq distributions_module[name])
                               THEN [dist_param |-> kwargs,
                                     result |-> Raise("TypeError")]
                               ELSE [dist_param |-> kwargs,
                                     result |-> Ok([distribution |-> name,
                                                    kwargs |-> kwargs])]

\* the loop of Inference.get_priors over parameters_to_fit[i..]: prior_config
\* is the mapping after the stats_module pop, priors the dict built so far
RECURSIVE GetPriorsLoop(_, _, _, _, _)
GetPriorsLoop(distributions_module, prior_config, parameters_to_fit, i, priors) ==
    IF i > Len(parameters_to_fit)
    THEN [prior_config |-> prior_config, result |-> Ok(priors)]
    ELSE LET param == parameters_to_fit[i]
         IN  IF param \notin DOMAIN prior_config
             THEN [prior_config |-> prior_config, result |-> Raise("KeyError")]
             ELSE LET made == InitializeDistribution(distributions_module,
                                                     prior_config[param])
                      after == Put(prior_config, param, made.dist_param)
                  IN  IF made.result.status = "error"
                      THEN [prior_config |-> after, result |-> made.result]
                      ELSE GetPriorsLoop(distributions_module, after,
                                         parameters_to_fit, i + 1,
                                         DictSet(priors, param, made.result.value))

\* Inference.get_priors
GetPriors(prior_config, parameters_to_fit) ==
    IF "stats_module" \notin DOMAIN prior_config
    THEN [prior_config |-> prior_config, result |-> Raise("KeyError")]
    ELSE IF prior_config["stats_module"] \notin StatsModules
    THEN [prior_config |-> Pop(prior_config, "stats_module"),
          result |-> Raise("ModuleNotFoundError")]
    ELSE GetPriorsLoop(DistributionsModule(prior_config["stats_module"]),
                       Pop(prior_config, "stats_module"),
                       parameters_to_fit, 1, EmptyDict)

(***************************************************************************)
(* Observations, covariances, predictions and theory models drawn on.      *)
(***************************************************************************)
\* the reference summary statistic 1, 2, ..., n
Reference(n) == [i \in 1..n |-> i]

Identity(n) == [i \in 1..n |-> [j \in 1..n |-> IF i = j THEN 1 ELSE 0]]

\* symmetric positive definite, not diagonal for n > 1
Tridiagonal(n) ==
    [i \in 1..n |-> [j \in 1..n |->
        IF i = j THEN 2 ELSE IF i - j \in {-1, 1} THEN 1 ELSE 0]]

\* singular for n > 1
Ones(n) == [i \in 1..n |-> [j \in 1..n |-> 1]]

Covariances(n) == {Identity(n), Tridiagonal(n), Ones(n)}

\* all sequences of length n over the set S
RECURSIVE SeqsOf(_, _)
SeqsOf(S, n) ==
    IF n = 0 THEN {<<>>}
    ELSE {Append(s, x) : s \in SeqsOf(S, n - 1), x \in S}

\* bin i of a prediction is i plus a deviation in 0..MaxDelta
Predictions(m) ==
    {[i \in 1..m |-> i + d[i]] : d \in SeqsOf(0..MaxDelta, m)}

\* predicted uncertainties: none, the same in every bin, or in the first bin
\* only, each up to MaxUnc
Uncertainties(m) ==
    {[i \in 1..m |-> 0]}
    \cup {[i \in 1..m |-> u] : u \in 1..MaxUnc}
    \cup {[i \in 1..m |-> IF i = 1 THEN u ELSE 0] : u \in 1..MaxUnc}

\* a theory model as the object holds it: only its input names matter here
Summary(input_names) == [input_names |-> input_names]

(***************************************************************************)
(* Covariance assembly.  A CovarianceMatrix (sunbird.covariance) is known  *)
(* by what it serves: the raw sample covariance of the data and of the     *)
(* simulation error with the number of samples each was estimated from,    *)
(* and the emulator error.                                                 *)
(***************************************************************************)
MatScale(c, m) ==
    Array([i \in 1..Rows(m) |-> Array([j \in 1..Cols(m) |-> RMul(c, m[i][j])])])

\* (n_samples - n_bins - 2) / (n_samples - 1)
HartlapFactor(n_samples, n_bins) == RNorm(n_samples - n_bins - 2, n_samples - 1)

\* CovarianceMatrix.get_covariance_data
GetCovarianceData(covariance, apply_hartlap_correction, volume_scaling) ==
    LET scaled == MatScale(RDiv(R(1), R(volume_scaling)), covariance.data)
    IN  IF apply_hartlap_correction
        THEN MatScale(HartlapFactor(covariance.n_data, Rows(covariance.data)), scaled)
        ELSE scaled

\* CovarianceMatrix.get_covariance_emulator
GetCovarianceEmulator(covariance) == covariance.emulator

\* CovarianceMatrix.get_covariance_simulation
GetCovarianceSimulation(covariance, apply_hartlap_correction) ==
    IF apply_hartlap_correction
    THEN MatScale(HartlapFactor(covariance.n_simulation, Rows(covariance.simulation)),
                  covariance.simulation)
    ELSE covariance.simulation

\* a faulty assembly: the emulator error is Hartlap-corrected like the data
GetCovarianceMatrixCorrectingEmulator(covariance, add_emulator_error, add_simulation_error, apply_hartlap_correction, volume_scaling) ==
    LET cov_data == GetCovarianceData(covariance, apply_hartlap_correction,
                                      volume_scaling)
        emulator ==
            IF apply_hartlap_correction
            THEN MatScale(HartlapFactor(covariance.n_data, Rows(covariance.data)),
                          GetCovarianceEmulator(covariance))
            ELSE GetCovarianceEmulator(covariance)
        with_emulator ==
            IF add_emulator_error THEN MatAdd(cov_data, emulator) ELSE cov_data
        with_simulation ==
            IF add_simulation_error
            THEN MatAdd(with_emulator,
                        GetCovarianceSimulation(covariance, apply_hartlap_correction))
            ELSE with_emulator
    IN  [value |-> with_simulation,
         requests |->
            <<[term |-> "data",
               apply_hartlap_correction |-> apply_hartlap_correction,
               volume_scaling |-> volume_scaling]>>
            \o (IF add_emulator_error THEN <<[term |-> "emulator"]>> ELSE <<>>)
            \o (IF add_simulation_error
                THEN <<[term |-> "simulation",
                        apply_hartlap_correction |-> apply_hartlap_correction]>>
                ELSE <<>>)]

\* Inference.get_covariance_matrix, lines 218-229: the matrix returned and
\* the requests made to the CovarianceMatrix, in order
GetCovarianceMatrix(covariance, add_emulator_error, add_simulation_error, apply_hartlap_correction, volume_scaling) ==
    LET cov_data == GetCovarianceData(covariance, apply_hartlap_correction,
                                      volume_scaling)
        with_emulator ==
            IF add_emulator_error
            THEN MatAdd(cov_data, GetCovarianceEmulator(covariance))
            ELSE cov_data
        with_simulation ==
            IF add_simulation_error
            THEN MatAdd(with_emulator,
                        GetCovarianceSimulation(covariance, apply_hartlap_correction))
            ELSE with_emulator
    IN  [value |-> with_simulation,
         requests |->
            <<[term |-> "data",
               apply_hartlap_correction |-> apply_hartlap_correction,
               volume_scaling |-> volume_scaling]>>
            \o (IF add_emulator_error THEN <<[term |-> "emulator"]>> ELSE <<>>)
            \o (IF add_simulation_error
                THEN <<[term |-> "simulation",
                        apply_hartlap_correction |-> apply_hartlap_correction]>>
                ELSE <<>>)]

(***************************************************************************)
(* Construction from a configuration mapping.  The data reader, the theory *)
(* model and the covariance source are external: each is known by what it  *)
(* returns.                                                                *)
(***************************************************************************)
\* the theory model's declared inputs, in order
InputNames == <<"omega_cdm", "sigma8", "logM1">>

\* data reader: the observed summary and the parameters it was made with
\* (one of which, B_cen, is no input of the theory model)
ObservedSummary == <<1, 2>>

TrueParameters ==
    [omega_cdm |-> 3, sigma8 |-> 8, logM1 |-> 13, B_cen |-> 0]

\* Inference.get_observation_and_parameters
GetObservationAndParameters(obs_config) ==
    [observation |-> RVec(ObservedSummary), parameters |-> TrueParameters]

\* CovarianceMatrix(covariance_data_class, dataset, ...), lines 210-217
CovarianceMatrixFor(covariance_data_class) ==
    [data |-> RMat(Tridiagonal(2)),
     n_data |-> IF covariance_data_class = "AbacusSmall" THEN 10 ELSE 7,
     emulator |-> RMat(Identity(2)),
     simulation |-> RMat(Ones(2)),
     n_simulation |-> 6]

\* lines 100-102
RECURSIVE FixedParametersLoop(_, _, _, _)
FixedParametersLoop(names, parameters, i, fixed_parameters) ==
    IF i > Len(names) THEN Ok(fixed_parameters)
    ELSE IF names[i] \notin DOMAIN parameters THEN Raise("KeyError")
    ELSE FixedParametersLoop(names, parameters, i + 1,
                             DictSet(fixed_parameters, names[i], parameters[names[i]]))

\* a faulty check: a missing volume scaling defaults for every class
ResolveVolumeScalingAlwaysDefault(covariance_config) ==
    IF "volume_scaling" \notin DOMAIN covariance_config
    THEN Ok(Put(covariance_config, "volume_scaling", 1))
    ELSE Ok(covariance_config)

\* lines 104-110: the covariance configuration with its volume scaling
ResolveVolumeScaling(covariance_config) ==
    IF "volume_scaling" \notin DOMAIN covariance_config
    THEN IF covariance_config["class"] = "AbacusSmall"
         THEN Raise("ValueError")
         ELSE Ok(Put(covariance_config, "volume_scaling", 1))
    ELSE Ok(covariance_config)

\* Inference.get_theory_model: the mapping as the call leaves it and the
\* model built
GetTheoryModel(theory_config) ==
    IF "module" \notin DOMAIN theory_config
    THEN [theory_config |-> theory_config, result |-> Raise("KeyError")]
    ELSE IF "class" \notin DOMAIN theory_config
    THEN [theory_config |-> Pop(theory_config, "module"), result |-> Raise("KeyError")]
    ELSE [theory_config |-> Pop(Pop(theory_config, "module"), "class"),
          result |-> Ok(Summary(InputNames))]

\* lines 125-127
ParametersToFit(theory_model, fixed_parameters) ==
    SelectSeq(theory_model.input_names, LAMBDA q : ~HasKey(fixed_parameters, q))

\* Inference.from_config_dict: the mapping as the call leaves it, the object
\* returned or the exception raised, and the calls started, in order
FromConfigDict(conf) ==
    LET observed == GetObservationAndParameters(conf.data.observation)
        fixed == FixedParametersLoop(conf.fixed_parameters, observed.parameters,
                                     1, EmptyDict)
        read == <<"get_observation_and_parameters">>
    IN  IF fixed.status = "error"
        THEN [config |-> conf, result |-> fixed, calls |-> read]
        ELSE
        LET scaling == ResolveVolumeScaling(conf.data.covariance)
        IN  IF scaling.status = "error"
            THEN [config |-> conf, result |-> scaling, calls |-> read]
            ELSE
            LET covariance_config == scaling.value
                theory == GetTheoryModel(conf.theory_model)
                conf2 == [conf EXCEPT !.data.covariance = covariance_config,
                                      !.theory_model = theory.theory_config]
                modelled == Append(read, "get_theory_model")
            IN  IF theory.result.status = "error"
                THEN [config |-> conf2, result |-> theory.result, calls |-> modelled]
                ELSE
                LET theory_model == theory.result.value
                    covariance_matrix ==
                        GetCovarianceMatrix(
                            CovarianceMatrixFor(covariance_config["class"]),
                            covariance_config["add_emulator_error_test_set"],
                            covariance_config["add_simulation_error"],
                            TRUE,
                            covariance_config["volume_scaling"]).value
                    priors == GetPriors(conf2.priors,
                                        ParametersToFit(theory_model, fixed.value))
                    conf3 == [conf2 EXCEPT !.priors = priors.prior_config]
                    resolved == modelled \o <<"get_covariance_matrix", "get_priors">>
                IN  IF priors.result.status = "error"
                    THEN [config |-> conf3, result |-> priors.result,
                          calls |-> resolved]
                    ELSE [config |-> conf3,
                          result |-> InferenceInit(
                              theory_model, observed.observation, covariance_matrix,
                              priors.result.value, fixed.value,
                              covariance_config["add_predicted_uncertainty"]),
                          calls |-> Append(resolved, "__init__")]

(***************************************************************************)
(* The likelihood specification: an object is constructed directly, then   *)
(* scored predictions are returned to the sampler one call at a time.      *)
(***************************************************************************)
\* no call has been made yet, or the last result was taken
NoOutcome == [op |-> "none"]

LikelihoodOps == {"get_loglikelihood_for_prediction",
                  "get_loglikelihood_for_prediction_vectorized"}

\* a likelihood value is on its way back to the sampler
Pending == outcome.op \in LikelihoodOps

Construct ==
    /\ inference = None
    /\ outcome = NoOutcome
    /\ \E n \in 1..MaxDim, flag \in BOOLEAN :
         \E cov \in Covariances(n) :
            LET made == InferenceInit(Summary(<<>>), RVec(Reference(n)), RMat(cov),
                                      EmptyDict, EmptyDict, flag)
            IN  /\ inference' = IF made.status = "ok" THEN made.value ELSE None
                /\ outcome' = [op |-> "__init__", covariance_matrix |-> cov,
                               add_predicted_uncertainty |-> flag, result |-> made]
    /\ UNCHANGED <<config, config_for_param>>

Scalar ==
    /\ inference # None
    /\ ~Pending
    /\ \E m \in 1..MaxDim :
         \E prediction \in Predictions(m), predicted_uncertainty \in Uncertainties(m) :
            outcome' = [op |-> "get_loglikelihood_for_prediction",
                        prediction |-> prediction,
                        predicted_uncertainty |-> predicted_uncertainty,
                        result |-> GetLoglikelihoodForPrediction(
                                       inference, prediction, predicted_uncertainty)]
    /\ UNCHANGED <<config, config_for_param, inference>>

Vectorized ==
    /\ inference # None
    /\ ~Pending
    /\ \E m \in 1..MaxDim, n \in 1..MaxBatch :
         \E prediction \in SeqsOf(Predictions(m), n),
            predicted_uncertainty \in SeqsOf(Uncertainties(m), n) :
            outcome' = [op |-> "get_loglikelihood_for_prediction_vectorized",
                        batch |-> prediction,
                        batch_uncertainty |-> predicted_uncertainty,
                        result |-> GetLoglikelihoodForPredictionVectorized(
                                       inference, prediction, predicted_uncertainty)]
    /\ UNCHANGED <<config, config_for_param, inference>>

\* the sampler takes the likelihood it asked for, then asks again
Report ==
    /\ Pending
    /\ outcome' = NoOutcome
    /\ UNCHANGED <<config, config_for_param, inference>>

Init ==
    /\ config = None
    /\ config_for_param = None
    /\ inference = None
    /\ outcome = NoOutcome

Next == Construct \/ Scalar \/ Vectorized \/ Report

Spec == Init /\ [][Next]_vars

\* the sampler scoring one prediction per call
NextScalar == Construct \/ Scalar \/ Report

SpecScalar == Init /\ [][NextScalar]_vars

(***************************************************************************)
(* Claims about the likelihood.                                            *)
(***************************************************************************)
ScalarDone == outcome.op = "get_loglikelihood_for_prediction"

VectorizedDone == outcome.op = "get_loglikelihood_for_prediction_vectorized"

\* prediction - observation, bin by bin, for vectors of one length
Residual(prediction, observation) ==
    [i \in 1..Len(observation) |-> RSub(R(prediction[i]), observation[i])]

\* -0.5 * sum_i sum_j d_i * inverse_ij * d_j
MinusHalfChiSquare(d, inverse) ==
    RMul(MinusHalf,
         RSum([i \in 1..Len(d) |->
                 RSum([j \in 1..Len(d) |-> RMul(d[i], RMul(inverse[i][j], d[j]))])]))

\* m * inverse is the identity matrix
IsInverseOf(inverse, m) ==
    \A i, j \in 1..Len(m) :
        RSum([k \in 1..Len(m) |-> RMul(m[i][k], inverse[k][j])])
            = IF i = j THEN R(1) ELSE R(0)

\* C1: a batch of N >= 1 rows scored by the vectorized likelihood gives a
\* length-N vector whose j-th entry is the scalar likelihood of row j with
\* row j's predicted uncertainty, in both modes (rows of the observation's
\* length, each of which the scalar form scores).
C1_VectorizedMatchesScalar ==
    (VectorizedDone /\ Cols(outcome.batch) = Len(inference.observation))
    => LET rows == [j \in 1..Rows(outcome.batch) |->
                      GetLoglikelihoodForPrediction(
                          inference, outcome.batch[j], outcome.batch_uncertainty[j])]
       IN  (\A j \in DOMAIN rows : rows[j].status = "ok")
           => /\ outcome.result.status = "ok"
              /\ Len(outcome.result.value) = Rows(outcome.batch)
              /\ \A j \in DOMAIN rows : outcome.result.value[j] = rows[j].value

\* C4: in fixed-covariance mode the scalar likelihood of a prediction of the
\* observation's length is -0.5 * d^T * C^-1 * d, with d = prediction -
\* observation and C^-1 the inverse of the covariance stored at
\* construction; it is 0 when prediction = observation, and with identity
\* covariance and observation [1,2,3] it is 0 for [1,2,3] and -1/2 for
\* [2,2,3].
C4_FixedCovarianceLikelihood ==
    (/\ ScalarDone
     /\ ~inference.add_predicted_uncertainty
     /\ Len(outcome.prediction) = Len(inference.observation))
    => LET d == Residual(outcome.prediction, inference.observation)
       IN  /\ IsInverseOf(inference.inverse_covariance_matrix,
                          inference.covariance_matrix)
           /\ outcome.result
                = Ok(MinusHalfChiSquare(d, inference.inverse_covariance_matrix))
           /\ (RVec(outcome.prediction) = inference.observation)
                => outcome.result = Ok(R(0))
           /\ (/\ inference.covariance_matrix = RMat(Identity(3))
               /\ inference.observation = RVec(<<1, 2, 3>>)
               /\ outcome.prediction = <<2, 2, 3>>)
                => outcome.result = Ok(<<-1, 2>>)

C4_Witness ==
    /\ ScalarDone
    /\ ~inference.add_predicted_uncertainty
    /\ inference.covariance_matrix = RMat(Identity(3))
    /\ inference.observation = RVec(<<1, 2, 3>>)
    /\ outcome.prediction = <<2, 2, 3>>
    /\ outcome.result = Ok(<<-1, 2>>)

\* the same observation and covariance, held by an object built in
\* fixed-covariance mode
FixedModeTwin(self) ==
    InferenceInit(self.theory_model, self.observation, self.covariance_matrix,
                  self.priors, self.fixed_parameters, FALSE)

AllZero(v) == \A i \in 1..Len(v) : v[i] = 0

\* C5: in predicted-uncertainty mode, an all-zero predicted uncertainty (of
\* the observation's length) gives the same outcome as the fixed-covariance
\* mode for the same prediction, observation and covariance.
C5_ZeroUncertaintyMatchesFixedMode ==
    (/\ ScalarDone
     /\ inference.add_predicted_uncertainty
     /\ Len(outcome.prediction) = Len(inference.observation)
     /\ Len(outcome.predicted_uncertainty) = Len(inference.observation)
     /\ AllZero(outcome.predicted_uncertainty))
    => LET twin == FixedModeTwin(inference)
       IN  IF twin.status = "ok"
           THEN outcome.result
                  = GetLoglikelihoodForPrediction(
                        twin.value, outcome.prediction,
                        outcome.predicted_uncertainty)
           ELSE outcome.result = twin

C5_Witness ==
    /\ ScalarDone
    /\ inference.add_predicted_uncertainty
    /\ inference.covariance_matrix = RMat(Tridiagonal(2))
    /\ outcome.prediction = <<2, 3>>
    /\ outcome.predicted_uncertainty = <<0, 0>>
    /\ outcome.result = Ok(<<-1, 3>>)

\* C10: a prediction whose length differs from the observation's never
\* yields a likelihood value: the scalar and the vectorized evaluation
\* both end in an error.
C10_ShapeMismatchRaises ==
    /\ (ScalarDone /\ Len(outcome.prediction) # Len(inference.observation))
        => outcome.result.status = "error"
    /\ (VectorizedDone /\ Cols(outcome.batch) # Len(inference.observation))
        => outcome.result.status = "error"

(***************************************************************************)
(* The prior specification: one prior's mapping, as a configuration file   *)
(* gives it, is resolved against a distributions module; the mapping is    *)
(* the caller's and keeps what a call did to it.                           *)
(***************************************************************************)
PriorValues == 0..MaxPrior

\* the prior mappings drawn: the two translated kinds, "normal", a kind
\* given by loc and scale, and mappings with a key missing
DistParams ==
    {[distribution |-> "uniform", min |-> a, max |-> b] : a, b \in PriorValues}
    \cup {[distribution |-> "norm", mean |-> a, dispersion |-> b] : a, b \in PriorValues}
    \cup {[distribution |-> "normal", mean |-> a, dispersion |-> b] : a, b \in PriorValues}
    \cup {[distribution |-> "expon", loc |-> a, scale |-> b] : a, b \in PriorValues}
    \cup {[distribution |-> "uniform", min |-> a] : a \in PriorValues}
    \cup {[distribution |-> "norm", dispersion |-> b] : b \in PriorValues}
    \cup {[loc |-> a, scale |-> b] : a, b \in PriorValues}

InitPriors ==
    /\ config = None
    /\ config_for_param \in DistParams
    /\ inference = None
    /\ outcome = NoOutcome

InitializeDistributionCall ==
    /\ \E stats_module \in StatsModules :
         LET made == InitializeDistribution(DistributionsModule(stats_module),
                                            config_for_param)
         IN  /\ config_for_param' = made.dist_param
             /\ outcome' = [op |-> "initialize_distribution",
                            stats_module |-> stats_module,
                            dist_param |-> config_for_param,
                            result |-> made.result]
    /\ UNCHANGED <<config, inference>>

NextPriors == InitializeDistributionCall

SpecPriors == InitPriors /\ [][NextPriors]_vars

(***************************************************************************)
(* Claims about prior resolution.                                          *)
(***************************************************************************)
InitializeDistributionDone == outcome.op = "initialize_distribution"

\* the call was given a mapping of this kind with exactly these two parameters
GivenKind(kind, first, second) ==
    /\ InitializeDistributionDone
    /\ DOMAIN outcome.dist_param = {"distribution", first, second}
    /\ outcome.dist_param["distribution"] = kind

\* the constructor was called (it returned, or it rejected its arguments)
ConstructorCalled ==
    \/ outcome.result.status = "ok"
    \/ outcome.result.status = "error" /\ outcome.result.error = "TypeError"

\* the mapping was translated to exactly loc and scale, of these values, and
\* a distribution constructed from it received exactly these
ResolvedWith(loc, scale) ==
    /\ config_for_param = [loc |-> loc, scale |-> scale]
    /\ outcome.result.status = "ok"
         => outcome.result.value.kwargs = [loc |-> loc, scale |-> scale]

\* C8 as stated: a prior of kind "normal" with (mean, dispersion) is
\* translated to loc = mean, scale = dispersion before the distribution is
\* constructed, so the constructor never receives mean or dispersion.
C8_NormalTranslated ==
    GivenKind("normal", "mean", "dispersion")
    => ResolvedWith(outcome.dist_param["mean"], outcome.dist_param["dispersion"])

\* C8, amended: it is the kind "norm" with (mean, dispersion) that is
\* translated to loc = mean, scale = dispersion before the distribution is
\* constructed, so that the constructor never receives mean or dispersion;
\* the kind "normal" is passed on as given.
C8_NormTranslated ==
    /\ GivenKind("norm", "mean", "dispersion")
        => ResolvedWith(outcome.dist_param["mean"],
                        outcome.dist_param["dispersion"])
    /\ GivenKind("normal", "mean", "dispersion")
        => config_for_param = Pop(outcome.dist_param, "distribution")

C8_Witness ==
    /\ GivenKind("norm", "mean", "dispersion")
    /\ outcome.dist_param["mean"] = 1
    /\ outcome.dist_param["dispersion"] = 2
    /\ outcome.result = Ok([distribution |-> "norm", kwargs |-> [loc |-> 1, scale |-> 2]])

\* C9: a prior of kind "uniform" with bounds min and max is always
\* translated to loc = min, scale = max - min before the distribution is
\* constructed, and the constructor receives exactly loc and scale (not min,
\* max or distribution); min 0, max 2 gives loc 0, scale 2.
C9_UniformTranslated ==
    GivenKind("uniform", "min", "max")
    => /\ ConstructorCalled
       /\ ResolvedWith(outcome.dist_param["min"],
                       outcome.dist_param["max"] - outcome.dist_param["min"])
       /\ (outcome.dist_param["min"] = 0 /\ outcome.dist_param["max"] = 2)
            => config_for_param = [loc |-> 0, scale |-> 2]

C9_Witness ==
    /\ GivenKind("uniform", "min", "max")
    /\ outcome.dist_param["min"] = 1
    /\ outcome.dist_param["max"] = 2
    /\ outcome.result = Ok([distribution |-> "uniform", kwargs |-> [loc |-> 1, scale |-> 1]])

(***************************************************************************)
(* The covariance specification: get_covariance_matrix is called on a      *)
(* covariance source with each choice of its switches.                     *)
(***************************************************************************)
\* number of samples the data covariance was estimated from
DataSamples == {7, 10}

CovarianceSources ==
    UNION {
        {[data |-> RMat(d), n_data |-> k, emulator |-> RMat(e),
          simulation |-> RMat(x), n_simulation |-> n + 4] :
            d \in {Identity(n), Tridiagonal(n)}, k \in DataSamples,
            e \in {Identity(n), Ones(n)}, x \in {Ones(n), Tridiagonal(n)}}
        : n \in 1..MaxDim}

GetCovarianceMatrixCall ==
    /\ outcome = NoOutcome
    /\ \E covariance \in CovarianceSources,
          add_emulator_error \in BOOLEAN, add_simulation_error \in BOOLEAN,
          apply_hartlap_correction \in BOOLEAN, volume_scaling \in 1..MaxVolume :
         outcome' = [op |-> "get_covariance_matrix",
                     covariance |-> covariance,
                     add_emulator_error |-> add_emulator_error,
                     add_simulation_error |-> add_simulation_error,
                     apply_hartlap_correction |-> apply_hartlap_correction,
                     volume_scaling |-> volume_scaling,
                     result |-> GetCovarianceMatrix(
                                    covariance, add_emulator_error,
                                    add_simulation_error, apply_hartlap_correction,
                                    volume_scaling)]
    /\ UNCHANGED <<config, config_for_param, inference>>

NextCovariance == GetCovarianceMatrixCall

SpecCovariance == Init /\ [][NextCovariance]_vars

(***************************************************************************)
(* Claims about covariance assembly.                                       *)
(***************************************************************************)
GetCovarianceMatrixDone == outcome.op = "get_covariance_matrix"

\* the requests for a term
RequestsFor(term) ==
    {k \in DOMAIN outcome.result.requests : outcome.result.requests[k].term = term}

\* C6: with apply_hartlap_correction true, the Hartlap correction is
\* requested for the data term and for the simulation-error term and never
\* for the emulator-error term, and the matrix returned is, entry by entry,
\* factor_base * raw_base + raw_emulator (if requested) + factor_sim *
\* raw_simulation (if requested), raw_base being the data covariance at the
\* requested volume.
C6_HartlapOnSampleTermsOnly ==
    (GetCovarianceMatrixDone /\ outcome.apply_hartlap_correction)
    => LET c == outcome.covariance
           n == Rows(c.data)
           requests == outcome.result.requests
           factor_base == HartlapFactor(c.n_data, n)
           factor_sim == HartlapFactor(c.n_simulation, n)
           raw_base == GetCovarianceData(c, FALSE, outcome.volume_scaling)
       IN  /\ \A k \in RequestsFor("data") \cup RequestsFor("simulation") :
                requests[k].apply_hartlap_correction
           /\ \A k \in RequestsFor("emulator") : DOMAIN requests[k] = {"term"}
           /\ RequestsFor("data") = {1}
           /\ RequestsFor("emulator") # {} <=> outcome.add_emulator_error
           /\ RequestsFor("simulation") # {} <=> outcome.add_simulation_error
           /\ \A i, j \in 1..n :
                outcome.result.value[i][j]
                  = RAdd(RMul(factor_base, raw_base[i][j]),
                         RAdd(IF outcome.add_emulator_error
                              THEN c.emulator[i][j] ELSE R(0),
                              IF outcome.add_simulation_error
                              THEN RMul(factor_sim, c.simulation[i][j]) ELSE R(0)))

C6_Witness ==
    /\ GetCovarianceMatrixDone
    /\ outcome.apply_hartlap_correction
    /\ outcome.add_emulator_error
    /\ outcome.add_simulation_error
    /\ outcome.volume_scaling = 1
    /\ outcome.covariance.data = RMat(Tridiagonal(2))
    /\ outcome.covariance.n_data = 10
    /\ outcome.covariance.emulator = RMat(Identity(2))
    /\ outcome.covariance.simulation = RMat(Ones(2))
    /\ outcome.result.value
         = << << <<41, 15>>, <<16, 15>> >>, << <<16, 15>>, <<41, 15>> >> >>

(***************************************************************************)
(* The configuration specification: a configuration mapping, as read from  *)
(* a file, is handed to from_config_dict, and handed to it again; the      *)
(* mapping is the caller's and keeps what a call did to it.                *)
(***************************************************************************)
\* the fixed_parameters lists drawn: inputs of the theory model, a parameter
\* of the observation that is no input (B_cen), an unknown name (n_s)
FixedParameterLists ==
    {<<>>, <<"omega_cdm">>, <<"omega_cdm", "sigma8">>, <<"B_cen">>,
     <<"omega_cdm", "B_cen">>, <<"n_s">>}

CovarianceConfigs ==
    LET base == {[class |-> c, dataset |-> "bossprior",
                  add_emulator_error_test_set |-> e,
                  add_simulation_error |-> x,
                  add_predicted_uncertainty |-> u] :
                    c \in {"AbacusSmall", "AbacusLarge"},
                    e \in BOOLEAN, x \in BOOLEAN, u \in BOOLEAN}
    IN  base \cup {Put(b, "volume_scaling", v) : b \in base, v \in 1..MaxVolume}

Uniform(min, max) == [distribution |-> "uniform", min |-> min, max |-> max]

PriorConfigs ==
    LET full == {[stats_module |-> m, omega_cdm |-> Uniform(0, 1),
                  sigma8 |-> k, logM1 |-> l] :
                    m \in StatsModules,
                    k \in {Uniform(0, 2),
                           [distribution |-> "norm", mean |-> 1, dispersion |-> 1]},
                    l \in {Uniform(1, 2),
                           [distribution |-> "normal", mean |-> 1, dispersion |-> 1]}}
    IN  full \cup {[stats_module |-> "scipy.stats", omega_cdm |-> Uniform(0, 1),
                    sigma8 |-> Uniform(0, 2)]}

Configs ==
    {[select_filters |-> "none", slice_filters |-> "none",
      statistics |-> <<"density_split_auto">>,
      data |-> [observation |-> [class |-> "Abacus"], covariance |-> c],
      fixed_parameters |-> f,
      theory_model |-> [module |-> "sunbird.summaries", class |-> "DensitySplitAuto"],
      priors |-> q,
      inference |-> [output_dir |-> "chains"]] :
        c \in CovarianceConfigs, f \in FixedParameterLists, q \in PriorConfigs}

InitConfig ==
    /\ config \in Configs
    /\ config_for_param = None
    /\ inference = None
    /\ outcome = NoOutcome

FromConfigDictCall ==
    /\ LET made == FromConfigDict(config)
       IN  /\ config' = made.config
           /\ inference' = IF made.result.status = "ok"
                           THEN made.result.value ELSE inference
           /\ outcome' = [op |-> "from_config_dict", given |-> config,
                          result |-> made.result, calls |-> made.calls]
    /\ UNCHANGED config_for_param

NextConfig == FromConfigDictCall

SpecConfig == InitConfig /\ [][NextConfig]_vars

(***************************************************************************)
(* Claims about construction from a configuration.                         *)
(***************************************************************************)
FromConfigDictDone == outcome.op = "from_config_dict"

\* C2: for every configuration from_config_dict accepts, the free parameter
\* names (the keys of priors, param_names) and the fixed parameter names
\* (the keys of fixed_parameters) are disjoint and their union is exactly
\* the theory model's input_names, also when the fixed_parameters list names
\* a parameter that is no input of the theory model.
C2_FreeAndFixedPartitionInputs ==
    (FromConfigDictDone /\ outcome.result.status = "ok")
    => LET self == outcome.result.value
           free == Range(self.param_names)
           fixed == Range(self.fixed_parameters.keys)
       IN  /\ free = Range(self.priors.keys)
           /\ free \cap fixed = {}
           /\ free \cup fixed = Range(self.theory_model.input_names)

\* C3: when the covariance configuration has class "AbacusSmall" and no
\* volume_scaling key, from_config_dict raises an error before the theory
\* model is built and before get_covariance_matrix is started, and returns
\* no Inference object.
C3_MissingVolumeScalingRaisesFirst ==
    (/\ FromConfigDictDone
     /\ outcome.given.data.covariance["class"] = "AbacusSmall"
     /\ "volume_scaling" \notin DOMAIN outcome.given.data.covariance)
    => /\ outcome.result.status = "error"
       /\ (Range(outcome.given.fixed_parameters) \subseteq DOMAIN TrueParameters)
            => outcome.result.error = "ValueError"
       /\ "get_theory_model" \notin Range(outcome.calls)
       /\ "get_covariance_matrix" \notin Range(outcome.calls)
       /\ "__init__" \notin Range(outcome.calls)
       /\ config.theory_model = outcome.given.theory_model

C3_Witness ==
    /\ FromConfigDictDone
    /\ outcome.given.data.covariance["class"] = "AbacusSmall"
    /\ "volume_scaling" \notin DOMAIN outcome.given.data.covariance
    /\ outcome.given.fixed_parameters = <<"omega_cdm">>
    /\ outcome.result = Raise("ValueError")
    /\ outcome.calls = <<"get_observation_and_parameters">>

\* C7: from_config_dict (with get_priors, initialize_distribution and
\* get_theory_model) removes or changes no key of the configuration mapping
\* it is given, so that a second call with the same mapping succeeds and
\* resolves the same theory model, priors, fixed parameters and covariance
\* as the first.
C7_ResolutionNonDestructive ==
    (FromConfigDictDone /\ outcome.result.status = "ok")
    => /\ config = outcome.given
       /\ FromConfigDict(config).result = outcome.result

(***************************************************************************)
(* The sampling specification: an object is constructed with priors and    *)
(* fixed parameters, then its likelihood, prior-sampling and prediction    *)
(* methods are called in any order, each call on the object as the call    *)
(* before left it.                                                         *)
(***************************************************************************)
\* a frozen uniform distribution, as initialize_distribution returns it
FrozenUniform(loc, scale) ==
    [distribution |-> "uniform", kwargs |-> [loc |-> loc, scale |-> scale]]

\* priors and fixed parameters of the objects drawn: every input free, or
\* logM1 fixed
SamplerSetups ==
    {[priors |-> DictSet(DictSet(DictSet(EmptyDict,
                     "omega_cdm", FrozenUniform(0, 1)),
                     "sigma8", FrozenUniform(0, 2)),
                     "logM1", FrozenUniform(1, 1)),
      fixed_parameters |-> EmptyDict],
     [priors |-> DictSet(DictSet(EmptyDict,
                     "omega_cdm", FrozenUniform(0, 1)),
                     "sigma8", FrozenUniform(0, 2)),
      fixed_parameters |-> DictSet(EmptyDict, "logM1", 13)]}

\* the whole numbers dist.rvs() can draw from a frozen uniform
Support(dist) == dist.kwargs.loc .. (dist.kwargs.loc + dist.kwargs.scale)

\* one draw for each prior
Draws(priors) ==
    {rvs \in [Range(priors.keys) -> 0..2] :
        \A k \in Range(priors.keys) : rvs[k] \in Support(priors.val[k])}

\* parameter vectors handed to get_model_prediction: shorter than, as long
\* as and longer than the free parameters
ParameterVectors == UNION {SeqsOf({0, 1}, k) : k \in 1..3}

\* what the theory model predicts for an observation of n bins
ModelPredictions(n) == {[i \in 1..n |-> i + delta] : delta \in 0..MaxDelta}

\* a batch of n rows of m bins: a first row, and row j is it plus j - 1
Batches(m, n) == {[j \in 1..n |-> [i \in 1..m |-> p[i] + j - 1]] : p \in Predictions(m)}

\* the predicted uncertainties of a batch: the same for every row
BatchUncertainties(m, n) == {[j \in 1..n |-> u] : u \in Uncertainties(m)}

CallOps == {"get_loglikelihood_for_prediction",
            "get_loglikelihood_for_prediction_vectorized",
            "sample_parameters_from_prior", "sample_from_prior",
            "get_model_prediction"}

\* a call's result is on its way back to the caller
Returning == outcome.op \in CallOps

ConstructSampler ==
    /\ inference = None
    /\ outcome = NoOutcome
    /\ \E n \in 1..MaxDim, flag \in BOOLEAN, setup \in SamplerSetups :
         \E cov \in Covariances(n) :
            LET made == InferenceInit(Summary(InputNames), RVec(Reference(n)),
                                      RMat(cov), setup.priors,
                                      setup.fixed_parameters, flag)
            IN  /\ inference' = IF made.status = "ok" THEN made.value ELSE None
                /\ outcome' = NoOutcome
    /\ UNCHANGED <<config, config_for_param>>

LikelihoodCall ==
    /\ inference # None
    /\ ~Returning
    /\ \E m \in 1..MaxDim :
         \E prediction \in Predictions(m), predicted_uncertainty \in Uncertainties(m) :
            LET call == GetLoglikelihoodForPredictionOnSelf(
                            inference, prediction, predicted_uncertainty)
            IN  /\ inference' = call.self
                /\ outcome' = [op |-> "get_loglikelihood_for_prediction",
                               prediction |-> prediction,
                               predicted_uncertainty |-> predicted_uncertainty,
                               covariance_matrix |-> call.covariance_matrix,
                               result |-> call.result]
    /\ UNCHANGED <<config, config_for_param>>

VectorizedLikelihoodCall ==
    /\ inference # None
    /\ ~Returning
    /\ \E m \in 1..MaxDim, n \in 1..MaxBatch :
         \E prediction \in Batches(m, n),
            predicted_uncertainty \in BatchUncertainties(m, n) :
            LET call == GetLoglikelihoodForPredictionVectorizedOnSelf(
                            inference, prediction, predicted_uncertainty)
            IN  /\ inference' = call.self
                /\ outcome' = [op |-> "get_loglikelihood_for_prediction_vectorized",
                               batch |-> prediction,
                               batch_uncertainty |-> predicted_uncertainty,
                               covariance_matrix |-> call.covariance_matrix,
                               likelihoods |-> call.result]
    /\ UNCHANGED <<config, config_for_param>>

SampleParametersFromPriorCall ==
    /\ inference # None
    /\ ~Returning
    /\ \E rvs \in Draws(inference.priors) :
         LET call == SampleParametersFromPrior(inference, rvs)
         IN  /\ inference' = call.self
             /\ outcome' = [op |-> "sample_parameters_from_prior",
                            params |-> call.result]
    /\ UNCHANGED <<config, config_for_param>>

SampleFromPriorCall ==
    /\ inference # None
    /\ ~Returning
    /\ \E rvs \in Draws(inference.priors),
          prediction \in ModelPredictions(Len(inference.observation)) :
         LET call == SampleFromPrior(inference, rvs, prediction)
         IN  /\ inference' = call.self
             /\ outcome' = [op |-> "sample_from_prior", sample |-> call.result]
    /\ UNCHANGED <<config, config_for_param>>

GetModelPredictionCall ==
    /\ inference # None
    /\ ~Returning
    /\ \E parameters \in ParameterVectors,
          prediction \in ModelPredictions(Len(inference.observation)) :
         LET call == GetModelPrediction(inference, parameters, prediction)
         IN  /\ inference' = call.self
             /\ outcome' = [op |-> "get_model_prediction",
                            parameters |-> parameters,
                            model_prediction |-> call.result]
    /\ UNCHANGED <<config, config_for_param>>

\* the caller takes what it asked for, then calls again
Return ==
    /\ Returning
    /\ outcome' = NoOutcome
    /\ UNCHANGED <<config, config_for_param, inference>>

NextCalls ==
    \/ ConstructSampler
    \/ LikelihoodCall
    \/ VectorizedLikelihoodCall
    \/ SampleParametersFromPriorCall
    \/ SampleFromPriorCall
    \/ GetModelPredictionCall
    \/ Return

SpecCalls == Init /\ [][NextCalls]_vars

(***************************************************************************)
(* Claims about calls on a constructed object.                             *)
(***************************************************************************)
Constructed == inference # None

\* stored + diag(predicted_uncertainty^2), entry by entry
PlusPredictedVariance(stored, predicted_uncertainty) ==
    [i \in 1..Len(stored) |->
        [j \in 1..Len(stored) |->
            IF i = j
            THEN RAdd(stored[i][j],
                      R(predicted_uncertainty[i] * predicted_uncertainty[i]))
            ELSE stored[i][j]]]

\* the covariance a scalar likelihood call used is the stored covariance
\* plus this call's predicted variance (one value per bin)
FreshCovariance ==
    (/\ outcome.op = "get_loglikelihood_for_prediction"
     /\ inference.add_predicted_uncertainty
     /\ Len(outcome.prediction) = Len(inference.observation)
     /\ Len(outcome.predicted_uncertainty) = Len(inference.observation))
    => outcome.covariance_matrix
         = Ok(PlusPredictedVariance(inference.covariance_matrix,
                                    outcome.predicted_uncertainty))

\* C11: once the object is constructed, every call of the two likelihoods,
\* of sample_parameters_from_prior, sample_from_prior and
\* get_model_prediction leaves observation, covariance_matrix,
\* inverse_covariance_matrix (where the object has one), priors,
\* fixed_parameters and param_names as they were; in predicted-uncertainty
\* mode the covariance a call uses is computed anew from the stored
\* covariance and that call's predicted uncertainty, and the stored
\* covariance is not added to.
C11_CallsLeaveObjectUnchanged ==
    [][Constructed
        => /\ DOMAIN inference' = DOMAIN inference
           /\ inference'.observation = inference.observation
           /\ inference'.covariance_matrix = inference.covariance_matrix
           /\ ("inverse_covariance_matrix" \in DOMAIN inference)
                => inference'.inverse_covariance_matrix
                     = inference.inverse_covariance_matrix
           /\ inference'.priors = inference.priors
           /\ inference'.fixed_parameters = inference.fixed_parameters
           /\ inference'.param_names = inference.param_names
           /\ FreshCovariance']_vars

C11_Witness ==
    /\ outcome.op = "get_loglikelihood_for_prediction"
    /\ inference.add_predicted_uncertainty
    /\ inference.covariance_matrix = RMat(Tridiagonal(2))
    /\ outcome.prediction = <<2, 3>>
    /\ outcome.predicted_uncertainty = <<1, 1>>
    /\ outcome.covariance_matrix = Ok(RMat(<<<<3, 1>>, <<1, 3>>>>))
    /\ outcome.result = Ok(<<-1, 4>>)

====
